---- MODULE Spec2Model ----
(***************************************************************************)
(* A model of server.js (LuaPure): the local-filesystem service (lines     *)
(* 1-162) and the GitHub-backed service (lines 164-313).                   *)
(*                                                                         *)
(* Text that the code inspects character by character (paths, file names,  *)
(* the completion text) is a sequence of one-character strings.  Text the  *)
(* code only passes along (messages, file content, source code) is a       *)
(* string.  JavaScript's undefined is the string Undefined.                *)
(*                                                                         *)
(* The host is POSIX: path.sep is "/".                                     *)
(***************************************************************************)
EXTENDS Naturals, Integers, Sequences, FiniteSets, TLC

VARIABLES
    mode,           \* which of the two services of server.js is running
    GROQ_API_KEY,   \* process.env.GROQ_API_KEY, read once at start-up
    fs,             \* the filesystem of the host
    slots           \* the requests the runtime is handling, one per slot

vars == <<mode, GROQ_API_KEY, fs, slots>>

Undefined == "<undefined>"

\* JavaScript truthiness of a string-or-undefined value (!x is ~Truthy(x)).
Truthy(v) == v # Undefined /\ v # ""

\* a || b on string-or-undefined values.
OrElse(a, b) == IF Truthy(a) THEN a ELSE b

\* Body(value), the value computed once.  TLC computes an operator's argument
\* anew at each use when it decides whether an action is enabled; a bound
\* variable holds the value itself.
With(Body(_), value) == CHOOSE r \in {Body(v) : v \in {value}} : TRUE

(***************************************************************************)
(* Character sequences                                                     *)
(***************************************************************************)
StartsWith(s, p) == Len(p) <= Len(s) /\ SubSeq(s, 1, Len(p)) = p

EndsWith(s, p) == Len(p) <= Len(s) /\ SubSeq(s, Len(s) - Len(p) + 1, Len(s)) = p

Drop(s, n) == SubSeq(s, n + 1, Len(s))

DropLast(s, n) == SubSeq(s, 1, Len(s) - n)

\* The white space String.prototype.trim removes (of the characters modelled).
IsWhiteSpace(c) == c \in {" ", "\n", "\t"}

RECURSIVE TrimStart(_)
TrimStart(s) ==
    IF s # <<>> /\ IsWhiteSpace(Head(s)) THEN TrimStart(Tail(s)) ELSE s

RECURSIVE TrimEnd(_)
TrimEnd(s) ==
    IF s # <<>> /\ IsWhiteSpace(s[Len(s)]) THEN TrimEnd(DropLast(s, 1)) ELSE s

Trim(s) == TrimEnd(TrimStart(s))

\* The lower case of a character, as the i flag of a regular expression folds it.
LowerChar(c) ==
    CASE c = "L" -> "l"
      [] c = "U" -> "u"
      [] c = "A" -> "a"
      [] OTHER -> c

Lower(s) == [k \in 1..Len(s) |-> LowerChar(s[k])]

\* The backquote character (a string of the module cannot hold it).
BackQuote == "BQ"

Fence == <<BackQuote, BackQuote, BackQuote>>

LuaTag == <<"l", "u", "a">>

\* s.replace(/^FENCElua\n?/i, ""), FENCE being three backquotes
StripLuaFence(s) ==
    IF StartsWith(Lower(s), Fence \o LuaTag)
    THEN IF Len(s) >= 7 /\ s[7] = "\n" THEN Drop(s, 7) ELSE Drop(s, 6)
    ELSE s

\* s.replace(/^FENCE\n?/i, "")
StripOpenFence(s) ==
    IF StartsWith(s, Fence)
    THEN IF Len(s) >= 4 /\ s[4] = "\n" THEN Drop(s, 4) ELSE Drop(s, 3)
    ELSE s

\* s.replace(/\n?FENCE$/i, ""): the leftmost match, so a newline before the
\* closing fence goes with it.
StripCloseFence(s) ==
    IF EndsWith(s, Fence)
    THEN IF Len(s) >= 4 /\ s[Len(s) - 3] = "\n" THEN DropLast(s, 4) ELSE DropLast(s, 3)
    ELSE s

\* luaCode of lines 139-142, from the text of the first completion.
StripFences(content) ==
    With(LAMBDA trimmed :
         With(LAMBDA s1 :
              With(LAMBDA s2 :
                   With(LAMBDA s3 : Trim(s3), StripCloseFence(s2)),
                   StripOpenFence(s1)),
              StripLuaFence(trimmed)),
         Trim(content))

(***************************************************************************)
(* Paths (Node's path module on a POSIX host)                              *)
(***************************************************************************)
Slash == <<"/">>

\* The positions of the separators of a path, in their order, between the
\* position before its first character and the one after its last.
Cuts(s) ==
    LET at == {k \in 1..Len(s) : s[k] = "/"}
    IN  [n \in 1..(Cardinality(at) + 2) |->
            IF n = 1 THEN 0
            ELSE IF n = Cardinality(at) + 2 THEN Len(s) + 1
            ELSE CHOOSE k \in at : Cardinality({j \in at : j < k}) = n - 2]

\* The segments of a path between its separators, empty ones included.
Split(s) ==
    With(LAMBDA cuts :
         [n \in 1..(Len(cuts) - 1) |-> SubSeq(s, cuts[n] + 1, cuts[n + 1] - 1)],
         Cuts(s))

RECURSIVE JoinSegs(_)
JoinSegs(segs) ==
    IF segs = <<>> THEN <<>>
    ELSE IF Len(segs) = 1 THEN segs[1]
    ELSE segs[1] \o Slash \o JoinSegs(Tail(segs))

\* normalizeString of an absolute path: empty and "." segments are dropped,
\* ".." removes the segment before it and is dropped at the top.
RECURSIVE NormSegs(_, _)
NormSegs(segs, stack) ==
    IF segs = <<>> THEN stack
    ELSE LET seg == Head(segs) IN
         IF seg = <<>> \/ seg = <<".">> THEN NormSegs(Tail(segs), stack)
         ELSE IF seg = <<".", ".">>
              THEN NormSegs(Tail(segs),
                            IF stack = <<>> THEN stack ELSE DropLast(stack, 1))
              ELSE NormSegs(Tail(segs), Append(stack, seg))

\* path.normalize of an absolute path; a trailing separator is kept.
Normalize(p) ==
    With(LAMBDA segs :
         With(LAMBDA kept :
              With(LAMBDA body :
                   Slash \o body
                       \o (IF body # <<>> /\ EndsWith(p, Slash) THEN Slash ELSE <<>>),
                   JoinSegs(kept)),
              NormSegs(segs, <<>>)),
         Split(p))

\* path.join(a, b) for an absolute a and a non-empty b.
PathJoin(a, b) == With(LAMBDA joined : Normalize(joined), a \o Slash \o b)

\* path.relative(from, to) where to lies lexically below from, the only case
\* getAllFiles meets: fullPath is baseDir joined with names readdirSync gave.
PathRelative(from, to) ==
    IF StartsWith(to, from \o Slash) THEN Drop(to, Len(from) + 1) ELSE to

\* relativePath.replace(/\\/g, "/")
ReplaceBackslashes(s) == [k \in 1..Len(s) |-> IF s[k] = "\\" THEN "/" ELSE s[k]]

(***************************************************************************)
(* File names                                                              *)
(***************************************************************************)
n_node_modules == <<"n", "o", "d", "e", "_", "m", "o", "d", "u", "l", "e", "s">>

n_git == <<".", "g", "i", "t">>

n_public == <<"p", "u", "b", "l", "i", "c">>

n_vscode == <<".", "v", "s", "c", "o", "d", "e">>

n_github == <<".", "g", "i", "t", "h", "u", "b">>

n_env == <<".", "e", "n", "v">>

n_env_example == <<".", "e", "n", "v", ".", "e", "x", "a", "m", "p", "l", "e">>

n_package_lock == <<"p", "a", "c", "k", "a", "g", "e", "-", "l", "o", "c", "k", ".", "j", "s", "o", "n">>

n_gitignore == <<".", "g", "i", "t", "i", "g", "n", "o", "r", "e">>

n_DS_Store == <<".", "D", "S", "_", "S", "t", "o", "r", "e">>

n_app == <<"a", "p", "p">>

n_app_data == <<"a", "p", "p", "-", "d", "a", "t", "a">>

n_etc == <<"e", "t", "c">>

n_passwd == <<"p", "a", "s", "s", "w", "d">>

n_x == <<"x">>

n_a_txt == <<"a", ".", "t", "x", "t">>

n_x_js == <<"x", ".", "j", "s">>

n_src == <<"s", "r", "c">>

n_m_rs == <<"m", ".", "r", "s">>

n_y_js == <<"y", ".", "j", "s">>

n_out == <<"o", "u", "t">>

n_loop == <<"l", "o", "o", "p">>

n_dead == <<"d", "e", "a", "d">>

n_priv == <<"p", "r", "i", "v">>

n_k == <<"k">>

n_b_bs_c == <<"b", "\\", "c">>

skipDirs == {n_node_modules, n_git, n_public, n_vscode, n_github}

skipFiles == {n_env, n_env_example, n_package_lock, n_gitignore, n_DS_Store}

\* __dirname, the root of the service.
dirname == Slash \o n_app


(***************************************************************************)
(* The filesystem: a table of nodes.  A directory holds its entries in the *)
(* order readdirSync returns them; an entry is a name for a node, or a     *)
(* symbolic link to a node ("none": the link dangles).                     *)
(***************************************************************************)
SizeCeiling == 500000

\* The symbolic links the kernel follows in one path before it gives ELOOP
\* (40 on Linux; the model runs with fewer).
SymlinkLimit == 2

File(size, content) == [type |-> "file", size |-> size, content |-> content]

Dir(entries, readable) == [type |-> "dir", entries |-> entries, readable |-> readable]

Entry(name, node) == [name |-> name, link |-> FALSE, node |-> node]

Link(name, node) == [name |-> name, link |-> TRUE, node |-> node]

Features == {"A", "ENV", "NM", "SRC", "OUT", "LOOP", "DEAD", "PRIV", "BS"}

\* The entries of the service root, by the features a filesystem has, in the
\* order the directory yields them.
RootEntries(F) ==
       (IF "LOOP" \in F THEN <<Link(n_loop, "d_root")>> ELSE <<>>)
    \o (IF "ENV" \in F THEN <<Entry(n_env, "f_env")>> ELSE <<>>)
    \o (IF "A" \in F THEN <<Entry(n_a_txt, "f_a")>> ELSE <<>>)
    \o (IF "BS" \in F THEN <<Entry(n_b_bs_c, "f_bs")>> ELSE <<>>)
    \o (IF "DEAD" \in F THEN <<Link(n_dead, "none")>> ELSE <<>>)
    \o (IF "NM" \in F THEN <<Entry(n_node_modules, "d_nm")>> ELSE <<>>)
    \o (IF "OUT" \in F THEN <<Link(n_out, "d_etc")>> ELSE <<>>)
    \o (IF "PRIV" \in F THEN <<Entry(n_priv, "d_priv")>> ELSE <<>>)
    \o (IF "SRC" \in F THEN <<Entry(n_src, "d_src")>> ELSE <<>>)

\* The nodes a filesystem with the given features holds.
NodeIds(F) ==
    {"/", "d_root", "d_sib", "f_sx", "d_etc", "f_pw"}
        \cup (IF "A" \in F THEN {"f_a"} ELSE {})
        \cup (IF "ENV" \in F THEN {"f_env"} ELSE {})
        \cup (IF "BS" \in F THEN {"f_bs"} ELSE {})
        \cup (IF "NM" \in F THEN {"d_nm", "f_x"} ELSE {})
        \cup (IF "PRIV" \in F THEN {"d_priv", "f_k"} ELSE {})
        \cup (IF "SRC" \in F THEN {"d_src", "f_m", "d_nm2", "f_y", "f_lock"} ELSE {})

\* /app is the service root; /app-data and /etc lie outside it.
MkFs(F, sizeA, sizeM) ==
    [id \in NodeIds(F) |->
        CASE id = "/" ->
               Dir(<<Entry(n_app, "d_root"), Entry(n_app_data, "d_sib"),
                     Entry(n_etc, "d_etc")>>, TRUE)
          [] id = "d_root" -> Dir(RootEntries(F), TRUE)
          [] id = "d_sib" -> Dir(<<Entry(n_x, "f_sx")>>, TRUE)
          [] id = "d_etc" -> Dir(<<Entry(n_passwd, "f_pw")>>, TRUE)
          [] id = "d_nm" -> Dir(<<Entry(n_x_js, "f_x")>>, TRUE)
          [] id = "d_src" ->
               Dir(<<Entry(n_m_rs, "f_m"), Entry(n_node_modules, "d_nm2"),
                     Entry(n_package_lock, "f_lock")>>, TRUE)
          [] id = "d_nm2" -> Dir(<<Entry(n_y_js, "f_y")>>, TRUE)
          [] id = "d_priv" -> Dir(<<Entry(n_k, "f_k")>>, FALSE)
          [] id = "f_a" -> File(sizeA, "content of a.txt")
          [] id = "f_env" -> File(5, "KEY=1")
          [] id = "f_bs" -> File(7, "content of b\\c")
          [] id = "f_x" -> File(5, "x()")
          [] id = "f_m" -> File(sizeM, "fn main() {}")
          [] id = "f_y" -> File(5, "y()")
          [] id = "f_lock" -> File(900, "{}")
          [] id = "f_k" -> File(3, "key")
          [] id = "f_pw" -> File(11, "root:x:0:0")
          [] id = "f_sx" -> File(6, "secret")]

\* The entries of a directory with the given name (none, or one).
Lookup(entries, name) == {k \in 1..Len(entries) : entries[k].name = name}

\* The kernel's walk of the segments of a path from a node, following links.
RECURSIVE ResolveFrom(_, _, _, _)
ResolveFrom(f, node, segs, links) ==
    IF segs = <<>> THEN [err |-> "", node |-> node]
    ELSE IF f[node].type # "dir" THEN [err |-> "ENOTDIR", node |-> node]
    ELSE IF Head(segs) = <<>> THEN ResolveFrom(f, node, Tail(segs), links)
    ELSE IF ~f[node].readable THEN [err |-> "EACCES", node |-> node]
    ELSE LET found == Lookup(f[node].entries, Head(segs)) IN
         IF found = {} THEN [err |-> "ENOENT", node |-> node]
         ELSE LET e == f[node].entries[CHOOSE k \in found : TRUE] IN
              IF ~e.link THEN ResolveFrom(f, e.node, Tail(segs), links)
              ELSE IF links + 1 > SymlinkLimit THEN [err |-> "ELOOP", node |-> node]
              ELSE IF e.node = "none" THEN [err |-> "ENOENT", node |-> node]
              ELSE ResolveFrom(f, e.node, Tail(segs), links + 1)

Resolve(f, p) == With(LAMBDA segs : ResolveFrom(f, "/", segs, 0), Split(p))

\* fs.statSync(p): the node a path leads to, links followed, or the error thrown.
statSync(f, p) ==
    With(LAMBDA r :
         [err |-> r.err,
          isDirectory |-> r.err = "" /\ f[r.node].type = "dir",
          size |-> IF r.err = "" /\ f[r.node].type = "file" THEN f[r.node].size ELSE 4096],
         Resolve(f, p))

RECURSIVE EntryNames(_)
EntryNames(entries) ==
    IF entries = <<>> THEN <<>> ELSE <<Head(entries).name>> \o EntryNames(Tail(entries))

\* fs.readdirSync(p)
readdirSync(f, p) ==
    With(LAMBDA r :
         IF r.err # "" THEN [err |-> r.err, names |-> <<>>]
         ELSE IF f[r.node].type # "dir" THEN [err |-> "ENOTDIR", names |-> <<>>]
         ELSE IF ~f[r.node].readable THEN [err |-> "EACCES", names |-> <<>>]
         ELSE [err |-> "", names |-> EntryNames(f[r.node].entries)],
         Resolve(f, p))

\* fs.readFileSync(p, "utf-8")
readFileSync(f, p) ==
    With(LAMBDA r :
         IF r.err # "" THEN [err |-> r.err, content |-> ""]
         ELSE IF f[r.node].type = "dir" THEN [err |-> "EISDIR", content |-> ""]
         ELSE [err |-> "", content |-> f[r.node].content],
         Resolve(f, p))

(***************************************************************************)
(* getAllFiles (lines 19-46).  A result is the array built so far and the  *)
(* error thrown, if one was.                                               *)
(***************************************************************************)
\* The test of line 34 on a name that is not a directory's.
KeepFile(file) == ~StartsWith(file, <<".">>) /\ file \notin skipFiles

\* Line 28 without its test: every directory is entered.
Descend_EveryDirectory(file) == TRUE

\* The test of line 28 on a directory's name.
Descend(file) == file \notin skipDirs

RECURSIVE getAllFiles(_, _, _, _)
RECURSIVE forEachFile(_, _, _, _, _)
RECURSIVE forEachStep(_, _, _, _, _, _, _, _)
getAllFiles(f, dirPath, arrayOfFiles, baseDir) ==
    With(LAMBDA rd :
         IF rd.err # "" THEN [err |-> rd.err, files |-> arrayOfFiles]
         ELSE forEachFile(f, rd.names, dirPath, arrayOfFiles, baseDir),
         readdirSync(f, dirPath))

\* One turn of files.forEach(...) (lines 22-43) and the turns after it.
forEachStep(f, names, dirPath, arrayOfFiles, baseDir, file, fullPath, st) ==
    IF st.err # "" THEN [err |-> st.err, files |-> arrayOfFiles]
    ELSE IF st.isDirectory
    THEN IF Descend(file)
         THEN With(LAMBDA r :
                   IF r.err # "" THEN r
                   ELSE forEachFile(f, Tail(names), dirPath, r.files, baseDir),
                   getAllFiles(f, fullPath, arrayOfFiles, baseDir))
         ELSE forEachFile(f, Tail(names), dirPath, arrayOfFiles, baseDir)
    ELSE IF KeepFile(file)
         THEN With(LAMBDA pushed : forEachFile(f, Tail(names), dirPath, pushed, baseDir),
                   Append(arrayOfFiles,
                          [path |-> ReplaceBackslashes(PathRelative(baseDir, fullPath)),
                           size |-> st.size]))
         ELSE forEachFile(f, Tail(names), dirPath, arrayOfFiles, baseDir)

\* files.forEach(...) of lines 22-43 over the names still to visit.
forEachFile(f, names, dirPath, arrayOfFiles, baseDir) ==
    IF names = <<>> THEN [err |-> "", files |-> arrayOfFiles]
    ELSE With(LAMBDA fullPath :
              With(LAMBDA st :
                   forEachStep(f, names, dirPath, arrayOfFiles, baseDir,
                               Head(names), fullPath, st),
                   statSync(f, fullPath)),
              PathJoin(dirPath, Head(names)))

(***************************************************************************)
(* Requests and responses                                                  *)
(***************************************************************************)
NoPath == [hasPath |-> FALSE, path |-> <<>>]

NoRepo == [owner |-> Undefined, repo |-> Undefined, branch |-> Undefined]

NoBody == [filePath |-> Undefined, code |-> Undefined, originalLang |-> Undefined]

Request(route, query, repo, body) ==
    [route |-> route, hasPath |-> query.hasPath, path |-> query.path,
     owner |-> repo.owner, repo |-> repo.repo, branch |-> repo.branch,
     filePath |-> body.filePath, code |-> body.code,
     originalLang |-> body.originalLang]

RepoFilesRequest(repo) == Request("repo-files", NoPath, repo, NoBody)

FileContentRequest(query) == Request("file-content", query, NoRepo, NoBody)

ConvertRequest(body) == Request("convert", NoPath, NoRepo, body)

HealthRequest == Request("health", NoPath, NoRepo, NoBody)

NoRequest == Request("none", NoPath, NoRepo, NoBody)

\* A response: its status and, by kind, the fields of its JSON body.
Response(status, kind) ==
    [status |-> status, kind |-> kind, error |-> Undefined,
     files |-> <<>>, total |-> 0, content |-> Undefined, path |-> <<>>,
     convertedCode |-> <<>>, filePath |-> Undefined, groqConfigured |-> FALSE]

NoResponse == Response(0, "none")

\* res.status(status).json({ error })
ErrorResponse(status, error) == [Response(status, "error") EXCEPT !.error = error]

\* res.json({ files, total })
FilesResponse(files, total) ==
    [Response(200, "files") EXCEPT !.files = files, !.total = total]

\* res.json({ content, path })
ContentResponse(content, path) ==
    [Response(200, "content") EXCEPT !.content = content, !.path = path]

\* res.json({ convertedCode, filePath })
ConvertedResponse(convertedCode, filePath) ==
    [Response(200, "converted") EXCEPT !.convertedCode = convertedCode,
                                       !.filePath = filePath]

(***************************************************************************)
(* GET /api/repo-files and GET /api/file-content of the local service      *)
(***************************************************************************)
\* The filter of line 55 with <= for <.
UnderCeiling_Inclusive(entry) == entry.size <= SizeCeiling

\* The filter of line 55.
UnderCeiling(entry) == entry.size < SizeCeiling

\* Lines 49-61.
RepoFilesLocal(f) ==
    With(LAMBDA files :
         IF files.err # "" THEN ErrorResponse(500, files.err)
         ELSE With(LAMBDA filtered : FilesResponse(filtered, Len(filtered)),
                   SelectSeq(files.files, UnderCeiling)),
         getAllFiles(f, dirname, <<>>, dirname))

\* The security check of line 74.
WithinRepo(fullPath) == StartsWith(fullPath, dirname)

\* Lines 64-83.
FileContentLocal(f, req) ==
    IF ~req.hasPath \/ req.path = <<>> THEN ErrorResponse(400, "Missing path")
    ELSE With(LAMBDA fullPath :
              IF ~WithinRepo(fullPath) THEN ErrorResponse(403, "Access denied")
              ELSE With(LAMBDA content :
                        IF content.err # "" THEN ErrorResponse(500, content.err)
                        ELSE ContentResponse(content.content, req.path),
                        readFileSync(f, fullPath)),
              PathJoin(dirname, req.path))

(***************************************************************************)
(* POST /api/convert (lines 87-149, and again 238-300)                     *)
(***************************************************************************)
\* A request to an upstream service: its URL (in parts), its credential, and
\* for the completion service the model and the variable parts of the prompt.
Call(url, authorization, model, prompt) ==
    [url |-> url, authorization |-> authorization, model |-> model,
     convertFrom |-> prompt.convertFrom, originalFile |-> prompt.originalFile,
     originalLanguage |-> prompt.originalLanguage, code |-> prompt.code]

NoPrompt == [convertFrom |-> Undefined, originalFile |-> Undefined,
             originalLanguage |-> Undefined, code |-> Undefined]

NoCall == Call(<<>>, Undefined, Undefined, NoPrompt)

\* Lines 89-96 without the check of line 94.
ConvertCheck_NoCodeCheck(key, req) ==
    IF ~Truthy(key) THEN "unconfigured" ELSE "call"

\* Lines 89-96 with the check of line 94 before the check of line 89.
ConvertCheck_CodeFirst(key, req) ==
    IF ~Truthy(req.code) THEN "nocode"
    ELSE IF ~Truthy(key) THEN "unconfigured"
    ELSE "call"

\* The checks of lines 89-96, in their order: what the handler does next.
ConvertCheck(key, req) ==
    IF ~Truthy(key) THEN "unconfigured"
    ELSE IF ~Truthy(req.code) THEN "nocode"
    ELSE "call"

\* The request of lines 98-137: the prompt's variable parts and the model.
GroqCall(key, req) ==
    Call(<<"https://api.groq.com/openai/v1/chat/completions">>, key,
         "llama3-70b-8192",
         [convertFrom |-> OrElse(req.originalLang, "code"),
          originalFile |-> req.filePath,
          originalLanguage |-> OrElse(req.originalLang, "unknown"),
          code |-> req.code])

\* What an awaited call gives back: a response (ok), or an error thrown, with
\* the upstream response when there was one.
Reply(ok, hasResponse, status, dataErrorMessage, dataMessage, message, hasList, list) ==
    [ok |-> ok, hasResponse |-> hasResponse, status |-> status,
     dataErrorMessage |-> dataErrorMessage, dataMessage |-> dataMessage,
     message |-> message, hasList |-> hasList, list |-> list]

NoReply == Reply(FALSE, FALSE, 0, Undefined, Undefined, Undefined, FALSE, <<>>)

\* A 200 reply whose data.choices (or data.tree) is the list.
OkReply(list) == Reply(TRUE, TRUE, 200, Undefined, Undefined, Undefined, TRUE, list)

\* A 200 reply whose data has no such list.
BareReply == Reply(TRUE, TRUE, 200, Undefined, Undefined, Undefined, FALSE, <<>>)

\* An error status: axios throws, err.response holds the status and the body.
HttpError(status, dataErrorMessage, dataMessage) ==
    Reply(FALSE, TRUE, status, dataErrorMessage, dataMessage,
          "Request failed with status code", FALSE, <<>>)

\* No response at all: axios throws, err.response is undefined.
TransportError(message) ==
    Reply(FALSE, FALSE, 0, Undefined, Undefined, message, FALSE, <<>>)

\* The TypeError of reading a property of undefined or null.
TypeError == TransportError("Cannot read properties of undefined")

\* One element of data.choices: message.content, a string or not.
Choice(hasContent, content) == [hasContent |-> hasContent, content |-> content]

\* err.response?.status || 500
CatchStatus(err) == IF err.hasResponse /\ err.status # 0 THEN err.status ELSE 500

\* Line 146 with its first two operands exchanged.
CatchMessage_MessageFirst(err) ==
    OrElse(IF err.hasResponse THEN err.dataMessage ELSE Undefined,
           OrElse(IF err.hasResponse THEN err.dataErrorMessage ELSE Undefined,
                  err.message))

\* err.response?.data?.error?.message || err.response?.data?.message || err.message
CatchMessage(err) ==
    OrElse(IF err.hasResponse THEN err.dataErrorMessage ELSE Undefined,
           OrElse(IF err.hasResponse THEN err.dataMessage ELSE Undefined,
                  err.message))

\* The catch of lines 145-148.
CatchConvert(err) == ErrorResponse(CatchStatus(err), CatchMessage(err))

\* Lines 139-148, once the awaited call has settled.
ConvertContinue(reply, req) ==
    IF ~reply.ok THEN CatchConvert(reply)
    ELSE IF ~reply.hasList \/ reply.list = <<>> \/ ~reply.list[1].hasContent
         THEN CatchConvert(TypeError)
         ELSE ConvertedResponse(StripFences(reply.list[1].content), req.filePath)

(***************************************************************************)
(* GET /api/repo-files of the GitHub service (lines 181-211)               *)
(***************************************************************************)
\* One element of data.tree.
TreeItem(type, hasSize, size, path, sha) ==
    [type |-> type, hasSize |-> hasSize, size |-> size, path |-> path, sha |-> sha]

\* The check of line 184.
RepoCheck(req) == IF ~Truthy(req.owner) \/ ~Truthy(req.repo) THEN "missing" ELSE "call"

\* The request of lines 188-194.
GithubCall(req) ==
    Call(<<"https://api.github.com/repos", req.owner, req.repo, "git/trees",
           OrElse(req.branch, "main"), "?recursive=1">>,
         Undefined, Undefined, NoPrompt)

\* The filter of line 198.
IsFile(item) == item.type = "file"

\* The filter of line 199; an undefined size compares false.
RemoteUnderCeiling(item) == item.hasSize /\ item.size < SizeCeiling

RECURSIVE MapItems(_)
MapItems(items) ==
    IF items = <<>> THEN <<>>
    ELSE <<[path |-> Head(items).path, size |-> Head(items).size,
             sha |-> Head(items).sha]>> \o MapItems(Tail(items))

\* The catch of lines 207-210.
CatchRepoFiles(err) ==
    ErrorResponse(CatchStatus(err),
                  OrElse(IF err.hasResponse THEN err.dataMessage ELSE Undefined,
                         err.message))

\* Lines 196-210, once the awaited call has settled.
RepoFilesContinue(reply) ==
    IF ~reply.ok THEN CatchRepoFiles(reply)
    ELSE IF ~reply.hasList THEN CatchRepoFiles(TypeError)
    ELSE LET files == MapItems(SelectSeq(SelectSeq(reply.list, IsFile), RemoteUnderCeiling))
         IN  FilesResponse(files, Len(files))

\* Lines 152-154.
Health(key) == [Response(200, "health") EXCEPT !.groqConfigured = Truthy(key)]


(***************************************************************************)
(* The runtime: each slot holds one request from its arrival to its        *)
(* response.  A handler runs to its end, or to its await, in one step.     *)
(***************************************************************************)
\* The requests the runtime handles at once.
MaxReqs == 2

Slots == 1..MaxReqs

Slot(st, req) ==
    [st |-> st, req |-> req, call |-> NoCall, ncalls |-> 0, reply |-> NoReply,
     resp |-> NoResponse, nresp |-> 0]

\* res.json(...): the response of the slot's request.
Respond(slot, resp) ==
    [slot EXCEPT !.st = "responded", !.resp = resp, !.nresp = @ + 1]

\* await axios...(...): the call leaves and the handler waits for it.
Await(slot, call) ==
    [slot EXCEPT !.st = "awaiting", !.call = call, !.ncalls = @ + 1]

\* The routes each service has (GET /api/file-content of the GitHub service,
\* lines 215-234, is not modelled).
Routes(m) ==
    IF m = "Local" THEN {"repo-files", "file-content", "convert", "health"}
    ELSE {"repo-files", "convert", "health"}

\* A request arrives on a free slot.
Receive(i, req) ==
    /\ slots[i].st \in {"idle", "responded"}
    /\ req.route \in Routes(mode)
    /\ slots' = [slots EXCEPT ![i] = Slot("received", req)]
    /\ UNCHANGED <<mode, GROQ_API_KEY, fs>>

\* Lines 49-61 with an array that outlives the request in place of the fresh
\* one of line 19: it holds what another slot's response lists.
HandleRepoFiles_SharedArray(i) ==
    /\ mode = "Local"
    /\ slots[i].st = "received"
    /\ slots[i].req.route = "repo-files"
    /\ LET others == {j \in Slots \ {i} : /\ slots[j].resp.kind = "files"
                                          /\ Len(slots[j].resp.files) = 1}
           arrayOfFiles == IF others = {} THEN <<>>
                           ELSE slots[CHOOSE j \in others : TRUE].resp.files
           files == getAllFiles(fs, dirname, arrayOfFiles, dirname)
           filtered == SelectSeq(files.files, UnderCeiling)
       IN  slots' = [slots EXCEPT ![i] =
               Respond(@, IF files.err # "" THEN ErrorResponse(500, files.err)
                          ELSE FilesResponse(filtered, Len(filtered)))]
    /\ UNCHANGED <<mode, GROQ_API_KEY, fs>>

\* GET /api/repo-files, local (lines 49-61).
HandleRepoFiles(i) ==
    /\ mode = "Local"
    /\ slots[i].st = "received"
    /\ slots[i].req.route = "repo-files"
    /\ slots' = [slots EXCEPT ![i] = Respond(@, RepoFilesLocal(fs))]
    /\ UNCHANGED <<mode, GROQ_API_KEY, fs>>

\* GET /api/file-content, local (lines 64-83).
HandleFileContent(i) ==
    /\ mode = "Local"
    /\ slots[i].st = "received"
    /\ slots[i].req.route = "file-content"
    /\ slots' = [slots EXCEPT ![i] = Respond(@, FileContentLocal(fs, slots[i].req))]
    /\ UNCHANGED <<mode, GROQ_API_KEY, fs>>

\* POST /api/convert up to its await (lines 87-137).
HandleConvert(i) ==
    /\ slots[i].st = "received"
    /\ slots[i].req.route = "convert"
    /\ LET check == ConvertCheck(GROQ_API_KEY, slots[i].req) IN
       slots' = [slots EXCEPT ![i] =
           CASE check = "unconfigured" ->
                  Respond(@, ErrorResponse(500,
                      "GROQ_API_KEY is not set in environment variables"))
             [] check = "nocode" -> Respond(@, ErrorResponse(400, "No code provided"))
             [] OTHER -> Await(@, GroqCall(GROQ_API_KEY, slots[i].req))]
    /\ UNCHANGED <<mode, GROQ_API_KEY, fs>>

\* The completion service answers, or the call fails; lines 139-148 run.
GroqReply(i, reply) ==
    /\ slots[i].st = "awaiting"
    /\ slots[i].req.route = "convert"
    /\ slots' = [slots EXCEPT ![i] =
           Respond([@ EXCEPT !.reply = reply], ConvertContinue(reply, slots[i].req))]
    /\ UNCHANGED <<mode, GROQ_API_KEY, fs>>

\* GET /api/repo-files, GitHub, up to its await (lines 181-194).
HandleRepoFilesRemote(i) ==
    /\ mode = "Remote"
    /\ slots[i].st = "received"
    /\ slots[i].req.route = "repo-files"
    /\ slots' = [slots EXCEPT ![i] =
           IF RepoCheck(slots[i].req) = "missing"
           THEN Respond(@, ErrorResponse(400, "Missing owner or repo"))
           ELSE Await(@, GithubCall(slots[i].req))]
    /\ UNCHANGED <<mode, GROQ_API_KEY, fs>>

\* GitHub answers, or the call fails; lines 196-210 run.
GithubReply(i, reply) ==
    /\ slots[i].st = "awaiting"
    /\ slots[i].req.route = "repo-files"
    /\ slots' = [slots EXCEPT ![i] =
           Respond([@ EXCEPT !.reply = reply], RepoFilesContinue(reply))]
    /\ UNCHANGED <<mode, GROQ_API_KEY, fs>>

\* The slot's handler waits for its upstream call to settle.
Awaiting(i) == slots[i].st = "awaiting"

\* GET /api/health (lines 152-154).
HandleHealth(i) ==
    /\ slots[i].st = "received"
    /\ slots[i].req.route = "health"
    /\ slots' = [slots EXCEPT ![i] = Respond(@, Health(GROQ_API_KEY))]
    /\ UNCHANGED <<mode, GROQ_API_KEY, fs>>


(***************************************************************************)
(* Inputs                                                                  *)
(***************************************************************************)
p_a_txt == <<"a", ".", "t", "x", "t">>

p_up_up_etc_passwd == <<".", ".", "/", ".", ".", "/", "e", "t", "c", "/", "p", "a", "s", "s", "w", "d">>

p_up_etc_passwd == <<".", ".", "/", "e", "t", "c", "/", "p", "a", "s", "s", "w", "d">>

p_up_app_data_x == <<".", ".", "/", "a", "p", "p", "-", "d", "a", "t", "a", "/", "x">>

p_up == <<".", ".">>

p_out_passwd == <<"o", "u", "t", "/", "p", "a", "s", "s", "w", "d">>

p_b_c == <<"b", "/", "c">>

p_env == <<".", "e", "n", "v">>

p_src_m_rs == <<"s", "r", "c", "/", "m", ".", "r", "s">>

p_nope == <<"n", "o", "p", "e">>

p_src_up_a_txt == <<"s", "r", "c", "/", ".", ".", "/", "a", ".", "t", "x", "t">>

p_a_txt_slash == <<"a", ".", "t", "x", "t", "/">>

Paths ==
    {p_a_txt, p_up_up_etc_passwd, p_up_etc_passwd, p_up_app_data_x, p_up,
     p_out_passwd, p_b_c, p_env, p_src_m_rs, p_nope, p_src_up_a_txt, p_a_txt_slash}

Query(path) == [hasPath |-> TRUE, path |-> path]

FileContentRequests ==
    {FileContentRequest(Query(p)) : p \in Paths \cup {<<>>}}
        \cup {FileContentRequest(NoPath)}

LocalRequests == {RepoFilesRequest(NoRepo)} \cup FileContentRequests

\* One slot takes the requests one after the other; the others stay closed.
OneSlot == [i \in Slots |-> IF i = 1 THEN Slot("idle", NoRequest) ELSE Slot("off", NoRequest)]

(***************************************************************************)
(* SpecLocal: the local service over every filesystem of the family.       *)
(***************************************************************************)
InitLocal ==
    /\ mode = "Local"
    /\ GROQ_API_KEY = Undefined
    /\ fs \in {MkFs(F, a, 20) : F \in SUBSET Features, a \in {10, SizeCeiling}}
    /\ slots = OneSlot

NextLocal ==
    \E i \in Slots :
        \/ \E req \in LocalRequests : Receive(i, req)
        \/ HandleRepoFiles(i)
        \/ HandleFileContent(i)

SpecLocal == InitLocal /\ [][NextLocal]_vars


(***************************************************************************)
(* Properties of the local service                                         *)
(***************************************************************************)
Responded(i, route) == slots[i].st = "responded" /\ slots[i].req.route = route

\* A normalized absolute location lies inside a directory: it is the directory
\* or continues it after a separator.
LiesInside(p, dir) == p = dir \/ StartsWith(p, dir \o Slash)

\* C1: a file-content request with a non-empty path whose location, joined to
\* the service root and normalized, does not lie inside the root is answered
\* 403 and never with file content.
C1_EscapeIsForbidden ==
    \A i \in Slots :
        (/\ Responded(i, "file-content")
         /\ slots[i].req.hasPath /\ slots[i].req.path # <<>>
         /\ ~LiesInside(Normalize(dirname \o Slash \o slots[i].req.path), dirname))
        => slots[i].resp.status = 403 /\ slots[i].resp.kind # "content"

\* The nodes below a directory by its own entries, links not followed: what
\* is located inside it.
RECURSIVE LocatedIn(_, _)
LocatedIn(f, node) ==
    IF f[node].type = "file" THEN {node}
    ELSE {node} \cup UNION {LocatedIn(f, f[node].entries[k].node) :
                          k \in {j \in 1..Len(f[node].entries) : ~f[node].entries[j].link}}

\* C4: the enumerator never returns an entry whose root-relative path resolves
\* outside the root, links in the tree included.
C4_EntriesResolveInsideRoot ==
    \A i \in Slots :
        (Responded(i, "repo-files") /\ slots[i].resp.kind = "files")
        => \A k \in 1..Len(slots[i].resp.files) :
              LET r == Resolve(fs, dirname \o Slash \o slots[i].resp.files[k].path)
              IN  r.err = "" => r.node \in LocatedIn(fs, "d_root")

\* The files a walk from a directory reaches, each with the names that lead to
\* it; a link is followed as stat follows it.
RECURSIVE FilesBelow(_, _, _, _)
FilesBelow(f, node, prefix, links) ==
    UNION {LET e == f[node].entries[k]
               n == IF e.link THEN links + 1 ELSE links
           IN  IF e.link /\ (e.node = "none" \/ n > SymlinkLimit) THEN {}
               ELSE IF f[e.node].type = "file"
                    THEN {[segs |-> Append(prefix, e.name), node |-> e.node]}
                    ELSE IF ~f[e.node].readable THEN {}
                    ELSE FilesBelow(f, e.node, Append(prefix, e.name), n)
           : k \in 1..Len(f[node].entries)}

ExcludedDirs == {n_node_modules, n_git, n_public, n_vscode, n_github}

ExcludedFiles == {n_env, n_env_example, n_package_lock, n_gitignore, n_DS_Store}

\* Not under an excluded directory at any depth, not a hidden or excluded file
\* name, under the size ceiling.
Eligible(f, x) ==
    /\ \A k \in 1..(Len(x.segs) - 1) : x.segs[k] \notin ExcludedDirs
    /\ x.segs[Len(x.segs)][1] # "."
    /\ x.segs[Len(x.segs)] \notin ExcludedFiles
    /\ f[x.node].size < 500000

EligibleFiles(f) == {x \in FilesBelow(f, "d_root", <<>>, 0) : Eligible(f, x)}

\* The path an entry is listed under.
Listed(x) == ReplaceBackslashes(JoinSegs(x.segs))

ListedPaths(files) == {files[k].path : k \in 1..Len(files)}

\* C5 as stated: whatever the tree, the response to repo-files holds the
\* eligible files and nothing else.
C5_ExactlyEligible_AnyTree ==
    \A i \in Slots :
        Responded(i, "repo-files")
        => /\ ListedPaths(slots[i].resp.files) = {Listed(x) : x \in EligibleFiles(fs)}
           /\ Len(slots[i].resp.files) = Cardinality(EligibleFiles(fs))

\* C5, for a traversal that meets no filesystem error: the response to
\* repo-files holds no entry under node_modules, .git, public, .vscode or
\* .github, no hidden or excluded file name, and every other file under the
\* size ceiling, once each.
C5_ExactlyEligible ==
    \A i \in Slots :
        (Responded(i, "repo-files") /\ slots[i].resp.kind = "files")
        => /\ ListedPaths(slots[i].resp.files) = {Listed(x) : x \in EligibleFiles(fs)}
           /\ Len(slots[i].resp.files) = Cardinality(EligibleFiles(fs))

\* A root with a.txt, .env and node_modules/x.js has yielded only a.txt.
C5_Witness ==
    \E i \in Slots :
        /\ Responded(i, "repo-files")
        /\ fs = MkFs({"A", "ENV", "NM"}, 10, 20)
        /\ slots[i].resp.kind = "files"
        /\ ListedPaths(slots[i].resp.files) = {n_a_txt}

\* C10: fetching a listed path of an eligible file, on a tree the enumerator
\* lists without error, returns the file's content and the requested path.
C10_RoundTrip ==
    \A i \in Slots :
        Responded(i, "file-content") /\ RepoFilesLocal(fs).kind = "files"
        => \A x \in EligibleFiles(fs) :
              slots[i].req.path = Listed(x)
              => /\ slots[i].resp.status = 200
                 /\ slots[i].resp.content = fs[x.node].content
                 /\ slots[i].resp.path = slots[i].req.path


(***************************************************************************)
(* Spec: both services, one request at a time, over every credential, file *)
(* size, request and upstream reply below.                                 *)
(***************************************************************************)
Keys == {Undefined, "", "gsk_key"}

Modes == {"Local", "Remote"}

Sizes == {10, 499999, 500000, 500001}

Repos ==
    {[owner |-> o, repo |-> r, branch |-> b] :
        o \in {Undefined, "PY44N"}, r \in {Undefined, "LuaObfuscatorV2"},
        b \in {Undefined, "dev"}}

Bodies ==
    {[filePath |-> "main.rs", code |-> c, originalLang |-> l] :
        c \in {Undefined, "", "fn main() {}"}, l \in {Undefined, "Rust"}}

Requests ==
    {RepoFilesRequest(r) : r \in Repos}
        \cup {FileContentRequest(Query(p_a_txt)), FileContentRequest(Query(p_up_etc_passwd)),
              FileContentRequest(NoPath)}
        \cup {ConvertRequest(b) : b \in Bodies}
        \cup {HealthRequest}

c_plain == <<"p", "r", "i", "n", "t", "(", "\"", "h", "i", "\"", ")">>

c_fenced_lua == <<BackQuote, BackQuote, BackQuote, "l", "u", "a", "\n", "p", "r", "i", "n", "t", "(", "\"", "h", "i", "\"", ")", "\n", BackQuote, BackQuote, BackQuote>>

c_fenced == <<BackQuote, BackQuote, BackQuote, "\n", "x", "\n", BackQuote, BackQuote, BackQuote>>

c_padded == <<" ", "x", " ", "\n">>

Completions == {c_plain, c_fenced_lua, c_fenced, c_padded, <<>>}

GroqReplies ==
    {OkReply(<<Choice(TRUE, c)>>) : c \in Completions}
        \cup {OkReply(<<>>), OkReply(<<Choice(FALSE, <<>>)>>), BareReply}
        \cup {HttpError(s, n, m) :
                s \in {401, 429}, n \in {Undefined, "", "Invalid API Key"},
                m \in {Undefined, "Rate limit reached"}}
        \cup {TransportError("connect ECONNREFUSED")}

TreeItems ==
    {TreeItem("file", TRUE, 499999, "src/main.rs", "sha1"),
     TreeItem("file", TRUE, 500000, "big.bin", "sha2"),
     TreeItem("file", FALSE, 0, "odd", "sha3"),
     TreeItem("blob", TRUE, 10, "README.md", "sha4"),
     TreeItem("tree", FALSE, 0, "src", "sha5")}

\* The longest data.tree an upstream reply holds.
MaxTree == 2

SeqsUpTo(S, n) == UNION {[1..k -> S] : k \in 0..n}

GithubReplies ==
    {OkReply(t) : t \in SeqsUpTo(TreeItems, MaxTree)}
        \cup {BareReply, HttpError(404, Undefined, "Not Found"),
              HttpError(403, Undefined, Undefined),
              TransportError("connect ECONNREFUSED")}

Init ==
    /\ mode \in Modes
    /\ GROQ_API_KEY \in Keys
    /\ fs \in {MkFs({"A", "SRC"}, a, m) : a \in Sizes, m \in Sizes}
    /\ slots = OneSlot

Next ==
    \E i \in Slots :
        \/ \E req \in Requests : Receive(i, req)
        \/ HandleRepoFiles(i)
        \/ HandleFileContent(i)
        \/ HandleConvert(i)
        \/ Awaiting(i) /\ \E reply \in GroqReplies : GroqReply(i, reply)
        \/ HandleRepoFilesRemote(i)
        \/ Awaiting(i) /\ \E reply \in GithubReplies : GithubReply(i, reply)
        \/ HandleHealth(i)

Spec == Init /\ [][Next]_vars


C7_UnconfiguredIs500 ==
    \A i \in Slots :
        (slots[i].req.route = "convert" /\ ~Truthy(GROQ_API_KEY))
        => /\ slots[i].st # "awaiting"
           /\ slots[i].ncalls = 0 /\ slots[i].call = NoCall
           /\ slots[i].st = "responded"
                => /\ slots[i].resp.status = 500
                   /\ slots[i].resp.kind = "error"
                   /\ slots[i].resp.error = "GROQ_API_KEY is not set in environment variables"

\* A request with code was refused for the missing credential.
C7_Witness ==
    \E i \in Slots :
        /\ Responded(i, "convert")
        /\ ~Truthy(GROQ_API_KEY)
        /\ Truthy(slots[i].req.code)
        /\ slots[i].resp.status = 500

\* The failure of a settled completion call, if it failed: the error axios
\* threw, or the TypeError of a reply without a usable first completion.
CallFailed(reply) ==
    ~reply.ok \/ ~reply.hasList \/ reply.list = <<>> \/ ~reply.list[1].hasContent

Failure(reply) == IF ~reply.ok THEN reply ELSE TypeError

\* C8 as stated: a failed call is answered with the upstream status if the
\* failure carries one, else 500, and the message is the body's nested
\* error.message if present, else the body's message if present, else the raw
\* error text; no converted code is returned.
C8_FailureMapping_IfPresent ==
    \A i \in Slots :
        (Responded(i, "convert") /\ slots[i].ncalls = 1 /\ CallFailed(slots[i].reply))
        => LET err == Failure(slots[i].reply) IN
           /\ slots[i].resp.kind = "error"
           /\ slots[i].resp.status = IF err.hasResponse THEN err.status ELSE 500
           /\ slots[i].resp.error =
                IF err.hasResponse /\ err.dataErrorMessage # Undefined
                THEN err.dataErrorMessage
                ELSE IF err.hasResponse /\ err.dataMessage # Undefined
                     THEN err.dataMessage
                     ELSE err.message

\* C8, with a message field taken only if it is present and not empty: a
\* failed call is answered with the upstream status if the failure carries
\* one, else 500, and the message is the body's nested error.message, else the
\* body's message, else the raw error text; no converted code is returned.
C8_FailureMapping ==
    \A i \in Slots :
        (Responded(i, "convert") /\ slots[i].ncalls = 1 /\ CallFailed(slots[i].reply))
        => LET err == Failure(slots[i].reply) IN
           /\ slots[i].resp.kind = "error"
           /\ slots[i].resp.status = IF err.hasResponse THEN err.status ELSE 500
           /\ slots[i].resp.error =
                IF err.hasResponse /\ err.dataErrorMessage \notin {Undefined, ""}
                THEN err.dataErrorMessage
                ELSE IF err.hasResponse /\ err.dataMessage \notin {Undefined, ""}
                     THEN err.dataMessage
                     ELSE err.message

\* An upstream 429 whose body has only a message field was passed on.
C8_Witness ==
    \E i \in Slots :
        /\ Responded(i, "convert")
        /\ slots[i].reply = HttpError(429, Undefined, "Rate limit reached")
        /\ slots[i].resp.status = 429
        /\ slots[i].resp.error = "Rate limit reached"

(***************************************************************************)
(* Properties of GET /api/repo-files, both services                        *)
(***************************************************************************)
NameEligible(x) ==
    /\ \A k \in 1..(Len(x.segs) - 1) : x.segs[k] \notin ExcludedDirs
    /\ x.segs[Len(x.segs)][1] # "."
    /\ x.segs[Len(x.segs)] \notin ExcludedFiles

Entries(files) == {files[k] : k \in 1..Len(files)}

Pieces == {Fence, LuaTag, <<"L", "U", "A">>, <<"\n">>, <<" ">>, <<"x">>}

\* The pieces of the longest completion text.
MaxPieces == 5

RECURSIVE Texts(_)
Texts(n) ==
    IF n = 0 THEN {<<>>}
    ELSE LET shorter == Texts(n - 1)
         IN  shorter \cup {t \o p : t \in shorter, p \in Pieces}

FenceReplies == {OkReply(<<Choice(TRUE, c)>>) : c \in Texts(MaxPieces)}

InitFence ==
    /\ mode = "Local"
    /\ GROQ_API_KEY = "gsk_key"
    /\ fs = MkFs({"A"}, 10, 10)
    /\ slots = OneSlot

NextFence ==
    \E i \in Slots :
        \/ \E l \in {Undefined, "Rust"} :
              Receive(i, ConvertRequest([filePath |-> "main.rs", code |-> "fn main() {}",
                                         originalLang |-> l]))
        \/ HandleConvert(i)
        \/ Awaiting(i) /\ \E reply \in FenceReplies : GroqReply(i, reply)

SpecFence == InitFence /\ [][NextFence]_vars

\* A leading fence, with or without the lua tag in any case, and the line
\* break after it.
LeadingFence(t) ==
    IF StartsWith(Lower(t), Fence \o LuaTag)
    THEN IF Len(t) >= 7 /\ t[7] = "\n" THEN 7 ELSE 6
    ELSE IF StartsWith(t, Fence)
         THEN IF Len(t) >= 4 /\ t[4] = "\n" THEN 4 ELSE 3
         ELSE 0

\* A trailing fence and the line break before it.
TrailingFence(t) ==
    IF EndsWith(t, Fence)
    THEN IF Len(t) >= 4 /\ t[Len(t) - 3] = "\n" THEN 4 ELSE 3
    ELSE 0

\* The text with one leading fence removed, then one trailing fence.
OnePairRemoved(t) ==
    LET opened == Drop(t, LeadingFence(t))
    IN  Trim(DropLast(opened, TrailingFence(opened)))

\* C3: a completion wrapped in one leading and one trailing fence comes back
\* with exactly that pair removed, so a second fence after the first stays; a
\* completion with no fence at its start or end comes back trimmed.
C3_OneFencePairRemoved ==
    \A i \in Slots :
        (Responded(i, "convert") /\ slots[i].resp.kind = "converted")
        => LET t == Trim(slots[i].reply.list[1].content) IN
           /\ (StartsWith(t, Fence) /\ EndsWith(t, Fence) /\ Len(t) >= 6)
                => slots[i].resp.convertedCode = OnePairRemoved(t)
           /\ (~StartsWith(t, Fence) /\ ~EndsWith(t, Fence))
                => slots[i].resp.convertedCode = t


(***************************************************************************)
(* FairSpec: the local service handling several requests at once.  The     *)
(* event loop runs every handler whose request has arrived, and an awaited *)
(* call settles: the upstream answers or the connection fails.             *)
(***************************************************************************)
FairRequests ==
    {RepoFilesRequest(NoRepo), FileContentRequest(Query(p_a_txt)),
     FileContentRequest(Query(p_up_etc_passwd)), FileContentRequest(NoPath),
     ConvertRequest([filePath |-> "main.rs", code |-> "", originalLang |-> "Rust"]),
     ConvertRequest([filePath |-> "main.rs", code |-> "fn main() {}",
                     originalLang |-> "Rust"])}

FairReplies ==
    {OkReply(<<Choice(TRUE, c_fenced)>>), HttpError(401, "Invalid API Key", Undefined),
     TransportError("connect ECONNREFUSED")}

InitFair ==
    /\ mode = "Local"
    /\ GROQ_API_KEY \in {Undefined, "gsk_key"}
    /\ fs \in {MkFs({"A"}, 10, 10), MkFs({"A", "DEAD"}, 10, 10)}
    /\ slots = [i \in Slots |-> Slot("idle", NoRequest)]

Settle(i) == Awaiting(i) /\ \E reply \in FairReplies : GroqReply(i, reply)

NextFair ==
    \E i \in Slots :
        \/ \E req \in FairRequests : Receive(i, req)
        \/ HandleRepoFiles(i)
        \/ HandleFileContent(i)
        \/ HandleConvert(i)
        \/ Settle(i)

Fairness ==
    \A i \in Slots :
        /\ WF_vars(HandleRepoFiles(i))
        /\ WF_vars(HandleFileContent(i))
        /\ WF_vars(HandleConvert(i))
        /\ WF_vars(Settle(i))

FairSpec == InitFair /\ [][NextFair]_vars /\ Fairness

Pending(i) == slots[i].st \in {"received", "awaiting"}

\* Two answered requests that were the same, with the same upstream reply,
\* got the same response.
SameRequestSameResponse ==
    \A i, j \in Slots :
        (/\ slots[i].st = "responded" /\ slots[j].st = "responded"
         /\ slots[i].req = slots[j].req /\ slots[i].reply = slots[j].reply)
        => slots[i].resp = slots[j].resp

\* A request has no response while it is handled and one once it is answered.
OneResponse ==
    \A i \in Slots :
        /\ Pending(i) => slots[i].nresp = 0 /\ slots[i].resp = NoResponse
        /\ slots[i].st = "responded" => slots[i].nresp = 1 /\ slots[i].resp # NoResponse

====
